---- MODULE Spec2Model ----
(***************************************************************************)
(* Task Planning Engine of the planner repository:                         *)
(*   - TaskSorter.sort            (src/tasks/task_sorter.py)               *)
(*   - TestPlanGenerator.generate_plan (src/tasks/test_plan_generator.py)  *)
(*   - TaskDependencies / DependencyResolver / TaskStatusManager, the      *)
(*     dependency gate and the status writes                               *)
(* The task table is the sequence `tasks` (rows in insertion order); the   *)
(* planner reads it, the gate writes the status column.                    *)
(***************************************************************************)
EXTENDS Integers, Sequences, FiniteSets, TLC

VARIABLES
    tasks,       \* the task list / task table: Seq of [id, test_type, dependencies, status,
                 \* owner, coverage_status]
    policy,      \* PriorityPolicy: [priorities (a dict), default_priority]
    pc,          \* position of the planning call: "idle", "sort", "generate", "done"
    indegree,    \* dict id -> int of the running planning call
    graph,       \* dict id -> list of dependents of the running planning call
    ready,       \* deque of ids of the running planning call
    plan,        \* `ordered` of sort / `plan` of generate_plan (ids, in emission order)
    outcome,     \* what the finished planning call gave its caller
    history,     \* the outcomes the earlier planning calls on this task list had
    call,        \* the last gate / status call: [op, id]
    ret,         \* what the last gate / status call returned (or the exception it raised)
    notes,       \* the status-change notifications the last call handed to NotificationService
    emitter,     \* what NotificationService did with them: "none", "sent", "failed"
    inflight,    \* the start_if_ready call that has made its check and not yet its write
    lock         \* how the callers serialise their calls (the gate itself takes no lock):
                 \* "none", "task" (one call at a time per task id), "table" (one call at a time)

vars == <<tasks, policy, pc, indegree, graph, ready, plan, outcome, history,
          call, ret, notes, emitter, inflight, lock>>

planVars == <<pc, indegree, graph, ready, plan, outcome, history>>
gateVars == <<call, ret, notes, emitter, inflight, lock>>

----------------------------------------------------------------------------
(* Bounds of the model *)

\* ids of the tasks of an input list, in input order; an input is a prefix of it
AllIds == <<"A", "B", "C">>
\* ids of the tasks of a list handed to the coverage analyzer
CoverageIds == <<"A", "B", "C", "D">>
\* ids of the rows of a task table the gate works on
StoreIds == SubSeq(AllIds, 1, 2)
\* an id no task carries (a dependency pointing outside the collection)
GhostId == "ghost"
\* longest dependency list of one task
MaxDeps == 2
\* most dependency entries of a whole task list
MaxEdges == 3
\* most dependency entries of a task list that is planned more than once
MaxReplanEdges == 2
\* most dependency entries of a task table the gate works on
MaxStoreEdges == 2

----------------------------------------------------------------------------
(* Data model: src/tasks/test_task_model.py *)

TestType == {"unit", "integration", "e2e", "exploratory", "performance", "security"}

TaskStatus == {"pending", "in_progress", "blocked", "done"}

\* a string that is the value of no TaskStatus member: TaskStatus(s) raises ValueError
InvalidStatus == "bogus"

\* what a caller may pass as new_status
StatusArgs == TaskStatus \cup {InvalidStatus}

\* CoverageStatus members, by value
CoverageMember(text) == [kind |-> "CoverageStatus", text |-> text]

\* a str that is not a CoverageStatus member
FreeText(text) == [kind |-> "str", text |-> text]

\* a coverage_status that is neither (None, a number)
NotAStatus == [kind |-> "other", text |-> <<>>]

MISSING == CoverageMember(<<"m", "i", "s", "s", "i", "n", "g">>)
COMPLETE == CoverageMember(<<"c", "o", "m", "p", "l", "e", "t", "e">>)

\* TestTask's default coverage_status
NOT_STARTED == CoverageMember(<<"n", "o", "t", "_", "s", "t", "a", "r", "t", "e", "d">>)

\* TestTask's default owner: None
NoOwner == "None"

\* PriorityPolicy() built by PolicyLoader._load_priority_policy when no file exists
DefaultPriorityPolicy ==
    [priorities |-> [t \in TestType |->
                        CASE t = "e2e" -> 5
                          [] t = "integration" -> 4
                          [] t = "security" -> 4
                          [] t = "performance" -> 3
                          [] t = "exploratory" -> 2
                          [] t = "unit" -> 1],
     default_priority |-> 0]

\* a priority_policy.yaml that names one type only: every other type gets default_priority
OverridePriorityPolicy ==
    [priorities |-> [t \in {"unit"} |-> 3], default_priority |-> 2]

\* policies that give every test type one value: a priority_policy.yaml without
\* priorities, and one that lists every type with the same number
FlatPriorityPolicies ==
    {[priorities |-> <<>>, default_priority |-> 0],
     [priorities |-> [t \in TestType |-> 7], default_priority |-> 0]}

\* what the policy directory may hold when the policy is loaded
Policies == {DefaultPriorityPolicy, OverridePriorityPolicy}

\* PolicyLoader._config before the first get_config()
NotLoaded == [priorities |-> <<>>, default_priority |-> -1]

\* PriorityPolicy.get_priority_for_test_type: priorities.get(name, default_priority)
get_priority_for_test_type(pol, test_type) ==
    IF test_type \in DOMAIN pol.priorities
    THEN pol.priorities[test_type]
    ELSE pol.default_priority

----------------------------------------------------------------------------
(* Helpers over the task list *)

Range(s) == {s[i] : i \in 1..Len(s)}

\* tasks_by_id = {t.id: t for t in tasks}: keys in input order (ids are unique)
Keys(ts) == [i \in 1..Len(ts) |-> ts[i].id]

IdSet(ts) == {ts[i].id : i \in 1..Len(ts)}

\* tasks_by_id[id]
TaskOf(ts, id) == ts[CHOOSE i \in 1..Len(ts) : ts[i].id = id]

\* position of a task in the input list
IndexOf(ts, id) == CHOOSE i \in 1..Len(ts) : ts[i].id = id

\* _priority(task, policy_loader)
Priority(ts, pol, id) == get_priority_for_test_type(pol, TaskOf(ts, id).test_type)

----------------------------------------------------------------------------
(* The dependency graph both planners build (sort: lines 26-36,            *)
(* generate_plan: lines 43-54)                                             *)

\* the membership test on dep_id left out
EdgesOfTaskKeepMissing(ts, t) ==
    [k \in 1..Len(t.dependencies) |-> <<t.dependencies[k], t.id>>]

\* the (dep_id, task.id) pairs in the order the two nested loops visit them,
\* `if dep_id not in tasks_by_id: continue` applied
EdgesOfTask(ts, t) ==
    LET deps == t.dependencies
        kept == SelectSeq(deps, LAMBDA d : d \in IdSet(ts))
    IN  [k \in 1..Len(kept) |-> <<kept[k], t.id>>]

RECURSIVE EdgeList(_, _)
EdgeList(ts, i) ==
    IF i > Len(ts) THEN <<>> ELSE EdgesOfTask(ts, ts[i]) \o EdgeList(ts, i + 1)

\* every dependency entry counted, in the set or not
BuildIndegreeCountAll(ts) ==
    [id \in IdSet(ts) |-> Len(TaskOf(ts, id).dependencies)]

\* indegree[task.id] = 1 in place of += 1
BuildIndegreeCapped(ts) ==
    LET E == EdgeList(ts, 1)
    IN  [id \in IdSet(ts) |-> IF \E k \in 1..Len(E) : E[k][2] = id THEN 1 ELSE 0]

\* indegree[task.id] += 1 for every kept pair
BuildIndegree(ts) ==
    LET E == EdgeList(ts, 1)
    IN  [id \in IdSet(ts) |-> Cardinality({k \in 1..Len(E) : E[k][2] = id})]

\* graph[dep_id].append(task.id) for every kept pair; graph.get(id, []) otherwise
BuildGraph(ts) ==
    LET E == EdgeList(ts, 1)
    IN  [id \in IdSet(ts) |->
            LET mine == SelectSeq(E, LAMBDA e : e[1] = id)
            IN  [k \in 1..Len(mine) |-> mine[k][2]]]

\* [tasks_by_id[tid] for tid, deg in indegree.items() if deg == 0]
ZeroIndegree(ts, indeg) == SelectSeq(Keys(ts), LAMBDA id : indeg[id] = 0)

\* a released task put at the front of the queue (appendleft)
RECURSIVE ReleaseToFront(_, _, _)
ReleaseToFront(nbrs, indeg, rdy) ==
    IF nbrs = <<>>
    THEN [indegree |-> indeg, ready |-> rdy]
    ELSE LET n == Head(nbrs)
             d == indeg[n] - 1
         IN  ReleaseToFront(Tail(nbrs), [indeg EXCEPT ![n] = d],
                            IF d = 0 THEN <<n>> \o rdy ELSE rdy)

\* for neighbor_id in graph.get(current.id, []):
\*     indegree[neighbor_id] -= 1
\*     if indegree[neighbor_id] == 0: ready.append(tasks_by_id[neighbor_id])
RECURSIVE Release(_, _, _)
Release(nbrs, indeg, rdy) ==
    IF nbrs = <<>>
    THEN [indegree |-> indeg, ready |-> rdy]
    ELSE LET n == Head(nbrs)
             d == indeg[n] - 1
         IN  Release(Tail(nbrs), [indeg EXCEPT ![n] = d],
                     IF d = 0 THEN Append(rdy, n) ELSE rdy)

\* a sort that puts an element in front of its ties
InsertDescBeforeTies(sorted, x, key) ==
    LET n == Cardinality({k \in 1..Len(sorted) : key[sorted[k]] > key[x]})
    IN  SubSeq(sorted, 1, n) \o <<x>> \o SubSeq(sorted, n + 1, Len(sorted))

\* sorted(seq, key=get_priority, reverse=True): stable, descending.
\* Each element goes behind every element already placed whose key is >= its own.
InsertDesc(sorted, x, key) ==
    LET n == Cardinality({k \in 1..Len(sorted) : key[sorted[k]] >= key[x]})
    IN  SubSeq(sorted, 1, n) \o <<x>> \o SubSeq(sorted, n + 1, Len(sorted))

\* an ascending sort read backwards: ties come out in reverse
RECURSIVE SortedDescReversingTies(_, _, _)
SortedDescReversingTies(seq, key, acc) ==
    IF seq = <<>> THEN acc
    ELSE SortedDescReversingTies(Tail(seq), key, InsertDescBeforeTies(acc, Head(seq), key))

RECURSIVE SortedDesc(_, _, _)
SortedDesc(seq, key, acc) ==
    IF seq = <<>> THEN acc
    ELSE SortedDesc(Tail(seq), key, InsertDesc(acc, Head(seq), key))

\* PolicyLoader.get_config as _priority reaches it: the first key function call
\* loads the policy (`loaded`: what the policy directory then holds), later calls
\* use the cached one; sorting an empty sequence calls no key function
get_config(pol, seq, loaded) ==
    IF pol = NotLoaded /\ seq # <<>> THEN loaded ELSE pol

\* get_priority of generate_plan as a table over the ids of the input
PriorityKey(ts, pol) == [id \in IdSet(ts) |-> Priority(ts, pol, id)]

\* reverse=True left out: ascending
SortReadyAscending(ts, pol, rdy) ==
    SortedDesc(rdy, [id \in IdSet(ts) |-> 0 - Priority(ts, pol, id)], <<>>)

\* sorted(ready, key=get_priority, reverse=True)
SortReady(ts, pol, rdy) == SortedDesc(rdy, PriorityKey(ts, pol), <<>>)

\* the queue left as the loop body made it
ResortSkipped(ts, pol, rdy) == rdy

\* if ready: ready = deque(sorted(ready, key=get_priority, reverse=True))
Resort(ts, pol, rdy) == IF rdy # <<>> THEN SortReady(ts, pol, rdy) ELSE rdy

----------------------------------------------------------------------------
(* Outcomes of a planning call *)

NoOutcome == [algo |-> "none", kind |-> "none", returned |-> <<>>, missing |-> {}]

\* return ordered / return plan
Returned(a, p) == [algo |-> a, kind |-> "ok", returned |-> p, missing |-> {}]

\* raise ValueError(f"...: {missing}") with missing = set(tasks_by_id) - {t.id for t in plan}
Raised(a, ts, p) ==
    [algo |-> a, kind |-> "error", returned |-> <<>>, missing |-> IdSet(ts) \ Range(p)]

\* the length check left out
ConcludeUnchecked(a, ts, p) == Returned(a, p)

\* if len(plan) != len(tasks_by_id): raise ...; return plan
Conclude(a, ts, p) ==
    IF Len(p) # Len(ts) THEN Raised(a, ts, p) ELSE Returned(a, p)

\* number of dependency entries of a task list
RECURSIVE CountDeps(_, _)
CountDeps(ts, i) ==
    IF i > Len(ts) THEN 0 ELSE Len(ts[i].dependencies) + CountDeps(ts, i + 1)

\* a caller may start a planning call when none runs; the outcome of the call
\* before it is kept for comparison
MayCall == pc = "idle" \/ (pc = "done" /\ CountDeps(tasks, 1) <= MaxReplanEdges)

Remember == IF pc = "done" THEN history \cup {outcome} ELSE history

----------------------------------------------------------------------------
(* TaskSorter.sort *)

\* lines 26-39: dicts, graph, ready deque, ordered = []
SortCall ==
    /\ MayCall
    /\ history' = Remember
    /\ indegree' = BuildIndegree(tasks)
    /\ graph' = BuildGraph(tasks)
    /\ ready' = ZeroIndegree(tasks, BuildIndegree(tasks))
    /\ plan' = <<>>
    /\ outcome' = NoOutcome
    /\ pc' = "sort"
    /\ UNCHANGED <<tasks, policy, gateVars>>

\* a loop that strikes the emitted task off its dependents' dependency lists
\* instead of counting down
SortLoopConsuming ==
    /\ pc = "sort"
    /\ ready # <<>>
    /\ LET current == Head(ready)
           r == Release(graph[current], indegree, Tail(ready))
       IN  /\ plan' = Append(plan, current)
           /\ indegree' = r.indegree
           /\ ready' = r.ready
           /\ tasks' = [i \in 1..Len(tasks) |->
                          [tasks[i] EXCEPT !.dependencies =
                              SelectSeq(@, LAMBDA d : d # current)]]
    /\ UNCHANGED <<policy, pc, graph, outcome, history, gateVars>>

\* lines 41-47: one iteration of `while ready`
SortLoop ==
    /\ pc = "sort"
    /\ ready # <<>>
    /\ LET current == Head(ready)
           r == Release(graph[current], indegree, Tail(ready))
       IN  /\ plan' = Append(plan, current)
           /\ indegree' = r.indegree
           /\ ready' = r.ready
    /\ UNCHANGED <<tasks, policy, pc, graph, outcome, history, gateVars>>

\* lines 49-55: the loop is over
SortEnd ==
    /\ pc = "sort"
    /\ ready = <<>>
    /\ outcome' = Conclude("sort", tasks, plan)
    /\ pc' = "done"
    /\ UNCHANGED <<tasks, policy, indegree, graph, ready, plan, history, gateVars>>

----------------------------------------------------------------------------
(* TestPlanGenerator.generate_plan *)

\* lines 43-68: dicts, graph, ready deque sorted by priority, plan = []
GenerateCall ==
    /\ MayCall
    /\ history' = Remember
    /\ indegree' = BuildIndegree(tasks)
    /\ graph' = BuildGraph(tasks)
    /\ \E loaded \in Policies :
          /\ policy' = get_config(policy, ZeroIndegree(tasks, BuildIndegree(tasks)), loaded)
          /\ ready' = SortReady(tasks, policy', ZeroIndegree(tasks, BuildIndegree(tasks)))
    /\ plan' = <<>>
    /\ outcome' = NoOutcome
    /\ pc' = "generate"
    /\ UNCHANGED <<tasks, gateVars>>

\* the ready tasks kept in a set: any of them may come out next
GenerateLoopAnyReady ==
    /\ pc = "generate"
    /\ ready # <<>>
    /\ \E j \in 1..Len(ready) :
         LET current == ready[j]
             rest == SubSeq(ready, 1, j - 1) \o SubSeq(ready, j + 1, Len(ready))
             r == Release(graph[current], indegree, rest)
         IN  /\ plan' = Append(plan, current)
             /\ indegree' = r.indegree
             /\ ready' = Resort(tasks, policy, r.ready)
    /\ UNCHANGED <<tasks, policy, pc, graph, outcome, history, gateVars>>

\* lines 69-80: one iteration of `while ready`, the re-sort included
GenerateLoop ==
    /\ pc = "generate"
    /\ ready # <<>>
    /\ LET current == Head(ready)
           r == Release(graph[current], indegree, Tail(ready))
       IN  /\ plan' = Append(plan, current)
           /\ indegree' = r.indegree
           /\ ready' = Resort(tasks, policy, r.ready)
    /\ UNCHANGED <<tasks, policy, pc, graph, outcome, history, gateVars>>

\* the plan returned without the length check
GenerateEndUnchecked ==
    /\ pc = "generate"
    /\ ready = <<>>
    /\ outcome' = Returned("generate", plan)
    /\ pc' = "done"
    /\ UNCHANGED <<tasks, policy, indegree, graph, ready, plan, history, gateVars>>

\* lines 82-88: the loop is over
GenerateEnd ==
    /\ pc = "generate"
    /\ ready = <<>>
    /\ outcome' = Conclude("generate", tasks, plan)
    /\ pc' = "done"
    /\ UNCHANGED <<tasks, policy, indegree, graph, ready, plan, history, gateVars>>

----------------------------------------------------------------------------
(* The two planners as functions of their input: the same steps, run to the end *)

\* `while ready:` of sort (algo = "sort") and of generate_plan (algo = "generate",
\* with the re-sort), then the length check
RECURSIVE RunLoop(_, _, _, _, _, _, _)
RunLoop(ts, pol, algo, indeg, g, rdy, p) ==
    IF rdy = <<>> THEN Conclude(algo, ts, p)
    ELSE LET current == Head(rdy)
             r == Release(g[current], indeg, Tail(rdy))
         IN  RunLoop(ts, pol, algo, r.indegree, g,
                     IF algo = "generate" THEN Resort(ts, pol, r.ready) ELSE r.ready,
                     Append(p, current))

\* TaskSorter.sort(tasks)
sort(ts) ==
    RunLoop(ts, NotLoaded, "sort", BuildIndegree(ts), BuildGraph(ts),
            ZeroIndegree(ts, BuildIndegree(ts)), <<>>)

\* TestPlanGenerator.generate_plan(tasks) under the policy pol
generate_plan(ts, pol) ==
    RunLoop(ts, pol, "generate", BuildIndegree(ts), BuildGraph(ts),
            SortReady(ts, pol, ZeroIndegree(ts, BuildIndegree(ts))), <<>>)

----------------------------------------------------------------------------
(* Inputs of the planning calls *)

\* test types the input lists draw from
InputTypes == {"unit", "e2e"}

DepIds == Range(AllIds) \cup {GhostId}

DepLists == UNION {[1..k -> DepIds] : k \in 0..MaxDeps}

RECURSIVE SumLen(_, _)
SumLen(deps, i) == IF i > Len(deps) THEN 0 ELSE Len(deps[i]) + SumLen(deps, i + 1)

\* a task list with unique ids, every task with TestTask's defaults: pending,
\* no owner, coverage not started
NewTasks(types, deps) ==
    [i \in 1..Len(types) |-> [id |-> AllIds[i],
                              test_type |-> types[i],
                              dependencies |-> deps[i],
                              status |-> "pending",
                              owner |-> NoOwner,
                              coverage_status |-> NOT_STARTED]]

\* tasks is a list of tasks with the first ids of `ids`, of the given types, with
\* at most maxEdges dependency entries in all
TaskListGiven(ids, typeSet, maxEdges) ==
    \E n \in 0..Len(ids) :
        \E deps \in [1..n -> DepLists] :
            /\ SumLen(deps, 1) <= maxEdges
            /\ \E types \in [1..n -> typeSet] : tasks = NewTasks(types, deps)

NoCall == [op |-> "none", id |-> "none"]

InitPlan ==
    /\ TaskListGiven(AllIds, InputTypes, MaxEdges)
    /\ policy = NotLoaded
    /\ pc = "idle"
    /\ indegree = <<>>
    /\ graph = <<>>
    /\ ready = <<>>
    /\ plan = <<>>
    /\ outcome = NoOutcome
    /\ history = {}
    /\ call = NoCall
    /\ ret = "None"
    /\ notes = <<>>
    /\ emitter = "none"
    /\ inflight = NoCall
    /\ lock = "table"

NextPlan ==
    \/ SortCall
    \/ SortLoop
    \/ SortEnd
    \/ GenerateCall
    \/ GenerateLoop
    \/ GenerateEnd

SpecPlan == InitPlan /\ [][NextPlan]_vars

----------------------------------------------------------------------------
(* The task table as the gate sees it: src/database/data_access_layer.py *)

\* TestTaskDAL.get_task(task_id) found a row
Found(ts, id) == id \in IdSet(ts)

\* get_task(task_id).status
StatusOf(ts, id) == TaskOf(ts, id).status

\* task.status = new_status; session.commit()
SetStatus(ts, id, new) == [ts EXCEPT ![IndexOf(ts, id)].status = new]

\* `if dep and dep.status != TaskStatus.DONE`: a dependency without a row passes
RECURSIVE AllDoneSkippingMissing(_, _)
AllDoneSkippingMissing(ts, deps) ==
    IF deps = <<>> THEN TRUE
    ELSE IF Found(ts, Head(deps)) /\ StatusOf(ts, Head(deps)) # "done" THEN FALSE
    ELSE AllDoneSkippingMissing(ts, Tail(deps))

\* only deps[0] looked at
AllDoneFirstOnly(ts, deps) ==
    IF deps = <<>> THEN TRUE
    ELSE Found(ts, Head(deps)) /\ StatusOf(ts, Head(deps)) = "done"

\* for dep_id in deps:
\*     dep = self.dal.get_task(dep_id)
\*     if not dep or dep.status != TaskStatus.DONE: return False
\* return True
RECURSIVE AllDone(_, _)
AllDone(ts, deps) ==
    IF deps = <<>> THEN TRUE
    ELSE IF ~Found(ts, Head(deps)) \/ StatusOf(ts, Head(deps)) # "done" THEN FALSE
    ELSE AllDone(ts, Tail(deps))

\* a dependency taken as complete only once its coverage is complete too
dependencies_complete_covered(ts, id) ==
    IF ~Found(ts, id) THEN "None"
    ELSE IF TaskOf(ts, id).dependencies = <<>> THEN "True"
    ELSE IF /\ AllDone(ts, TaskOf(ts, id).dependencies)
            /\ \A d \in Range(TaskOf(ts, id).dependencies) :
                  TaskOf(ts, d).coverage_status = COMPLETE
         THEN "True" ELSE "False"

\* a missing task answered with False
dependencies_complete_as_bool(ts, id) ==
    IF ~Found(ts, id) THEN "False"
    ELSE IF AllDone(ts, TaskOf(ts, id).dependencies) THEN "True" ELSE "False"

\* TaskDependencies.dependencies_complete: Optional[bool] as "True", "False", "None"
dependencies_complete(ts, id) ==
    IF ~Found(ts, id) THEN "None"
    ELSE IF TaskOf(ts, id).dependencies = <<>> THEN "True"
    ELSE IF AllDone(ts, TaskOf(ts, id).dependencies) THEN "True" ELSE "False"

\* the gate answering yes without looking
can_start_always(ts, id) == TRUE

\* DependencyResolver.can_start: bool(ready)
can_start(ts, id) == dependencies_complete(ts, id) = "True"

\* the notification notify_task_status_changed sends
Notification(id, old, new) == [task_id |-> id, old_status |-> old, new_status |-> new]

----------------------------------------------------------------------------
(* Status writes and gate calls; each is one call on one session *)

Called(op, id) == call' = [op |-> op, id |-> id]

\* a call that is given a status
CalledWith(op, id, new) == call' = [op |-> op, id |-> id, new_status |-> new]

\* the notification sent outside the try block: its exception reaches the caller
UpdateStatusUnguarded(id, new, delivered) ==
    IF ~Found(tasks, id)
    THEN /\ ret' = "False"
         /\ notes' = <<>>
         /\ emitter' = "none"
         /\ UNCHANGED tasks
    ELSE IF new \notin TaskStatus
    THEN /\ ret' = "ValueError"
         /\ notes' = <<>>
         /\ emitter' = "none"
         /\ UNCHANGED tasks
    ELSE /\ tasks' = SetStatus(tasks, id, new)
         /\ notes' = IF StatusOf(tasks, id) # new
                     THEN <<Notification(id, StatusOf(tasks, id), new)>>
                     ELSE <<>>
         /\ emitter' = IF StatusOf(tasks, id) = new THEN "none"
                       ELSE IF delivered THEN "sent" ELSE "failed"
         /\ ret' = IF StatusOf(tasks, id) # new /\ ~delivered THEN "Exception" ELSE "True"

\* TaskStatusManager.update_status(task_id, new_status), as every caller sees it.
\* delivered: whether NotificationService got the notification out; when it did
\* not (an exception, caught and printed) the call goes on
UpdateStatus(id, new, delivered) ==
    IF ~Found(tasks, id)
    THEN /\ ret' = "False"
         /\ notes' = <<>>
         /\ emitter' = "none"
         /\ UNCHANGED tasks
    ELSE IF new \notin TaskStatus
    THEN /\ ret' = "ValueError"
         /\ notes' = <<>>
         /\ emitter' = "none"
         /\ UNCHANGED tasks
    ELSE /\ tasks' = SetStatus(tasks, id, new)
         /\ notes' = IF StatusOf(tasks, id) # new
                     THEN <<Notification(id, StatusOf(tasks, id), new)>>
                     ELSE <<>>
         /\ emitter' = IF StatusOf(tasks, id) = new THEN "none"
                       ELSE IF delivered THEN "sent" ELSE "failed"
         /\ ret' = "True"

\* update_status put behind the dependency gate
update_status_gated(id, new) ==
    /\ CalledWith("update_status", id, new)
    /\ IF Found(tasks, id) /\ ~can_start(tasks, id)
       THEN ret' = "False" /\ notes' = <<>> /\ emitter' = "none" /\ UNCHANGED tasks
       ELSE \E delivered \in BOOLEAN : UpdateStatus(id, new, delivered)
    /\ UNCHANGED <<policy, planVars, inflight, lock>>

\* TaskStatusManager.update_status called by a client
update_status(id, new) ==
    /\ CalledWith("update_status", id, new)
    /\ \E delivered \in BOOLEAN : UpdateStatus(id, new, delivered)
    /\ UNCHANGED <<policy, planVars, inflight, lock>>

\* a false path that records the refusal in the row
RefusedMarkingBlocked ==
    /\ ret' = "False"
    /\ notes' = <<>>
    /\ emitter' = "none"
    /\ tasks' = IF Found(tasks, call'.id) THEN SetStatus(tasks, call'.id, "blocked") ELSE tasks

\* the false path of the gate: nothing written, nothing sent
Refused ==
    /\ ret' = "False"
    /\ notes' = <<>>
    /\ emitter' = "none"
    /\ UNCHANGED tasks

\* TaskDependencies.dependencies_complete called by a client
dependencies_complete_call(id) ==
    /\ Called("dependencies_complete", id)
    /\ ret' = dependencies_complete(tasks, id)
    /\ notes' = <<>>
    /\ emitter' = "none"
    /\ UNCHANGED <<tasks, policy, planVars, inflight, lock>>

\* the check of the gate left out
start_unchecked(id) ==
    /\ Called("start_if_ready", id)
    /\ \E delivered \in BOOLEAN : UpdateStatus(id, "in_progress", delivered)
    /\ UNCHANGED <<policy, planVars, inflight, lock>>

\* DependencyResolver.start_if_ready
start_if_ready(id) ==
    /\ Called("start_if_ready", id)
    /\ IF ~can_start(tasks, id)
       THEN Refused
       ELSE \E delivered \in BOOLEAN : UpdateStatus(id, "in_progress", delivered)
    /\ UNCHANGED <<policy, planVars, inflight, lock>>

\* DependencyResolver.complete_if_ready
complete_if_ready(id) ==
    /\ Called("complete_if_ready", id)
    /\ IF ~can_start(tasks, id)
       THEN Refused
       ELSE \E delivered \in BOOLEAN : UpdateStatus(id, "done", delivered)
    /\ UNCHANGED <<policy, planVars, inflight, lock>>

\* the body shared by mark_in_progress_if_ready and complete_task
GatedWrite(id, new) ==
    IF ~Found(tasks, id) THEN Refused
    ELSE IF dependencies_complete(tasks, id) # "True" THEN Refused
    ELSE /\ tasks' = SetStatus(tasks, id, new)
         /\ notes' = <<>>
         /\ emitter' = "none"
         /\ ret' = "True"

\* TaskDependencies.mark_in_progress_if_ready
mark_in_progress_if_ready(id) ==
    /\ Called("mark_in_progress_if_ready", id)
    /\ GatedWrite(id, "in_progress")
    /\ UNCHANGED <<policy, planVars, inflight, lock>>

\* TaskDependencies.complete_task
complete_task(id) ==
    /\ Called("complete_task", id)
    /\ GatedWrite(id, "done")
    /\ UNCHANGED <<policy, planVars, inflight, lock>>

\* TestTaskDAL.update_task(task_id, status=new): the status branch (lines 120-137),
\* every other keyword left None; returns the row, or None when there is none
update_task(id, new) ==
    /\ CalledWith("update_task", id, new)
    /\ IF ~Found(tasks, id)
       THEN /\ ret' = "None"
            /\ notes' = <<>>
            /\ emitter' = "none"
            /\ UNCHANGED tasks
       ELSE IF new \notin TaskStatus
       THEN /\ ret' = "ValueError"
            /\ notes' = <<>>
            /\ emitter' = "none"
            /\ UNCHANGED tasks
       ELSE /\ tasks' = SetStatus(tasks, id, new)
            /\ notes' = IF StatusOf(tasks, id) # new
                        THEN <<Notification(id, StatusOf(tasks, id), new)>>
                        ELSE <<>>
            /\ \E delivered \in BOOLEAN :
                  emitter' = IF StatusOf(tasks, id) = new THEN "none"
                             ELSE IF delivered THEN "sent" ELSE "failed"
            /\ ret' = "Task"
    /\ UNCHANGED <<policy, planVars, inflight, lock>>

\* The calls as functions of the table they start from: what the caller gets
\* and the table they leave. c is the call, [op, id] or [op, id, new_status].

\* update_status: lines 29-35 and 54 of task_status.py
UpdateOutcome(ts, id, new) ==
    IF ~Found(ts, id) THEN [ret |-> "False", tasks |-> ts]
    ELSE IF new \notin TaskStatus THEN [ret |-> "ValueError", tasks |-> ts]
    ELSE [ret |-> "True", tasks |-> SetStatus(ts, id, new)]

\* dependencies_complete, start_if_ready, complete_if_ready, update_status
GateOutcome(ts, c) ==
    CASE c.op = "dependencies_complete" ->
            [ret |-> dependencies_complete(ts, c.id), tasks |-> ts]
      [] c.op = "start_if_ready" ->
            IF ~can_start(ts, c.id) THEN [ret |-> "False", tasks |-> ts]
            ELSE UpdateOutcome(ts, c.id, "in_progress")
      [] c.op = "complete_if_ready" ->
            IF ~can_start(ts, c.id) THEN [ret |-> "False", tasks |-> ts]
            ELSE UpdateOutcome(ts, c.id, "done")
      [] c.op = "update_status" -> UpdateOutcome(ts, c.id, c.new_status)

\* the task table the gate starts from: rows as create_task leaves them
\* (a dependency id is the id of a row, of a row not yet created, or of no row)
InitGate ==
    /\ TaskListGiven(StoreIds, {"unit"}, MaxStoreEdges)
    /\ \A i \in 1..Len(tasks) :
          Range(tasks[i].dependencies) \subseteq Range(StoreIds) \cup {GhostId}
    /\ policy = NotLoaded
    /\ pc = "idle"
    /\ indegree = <<>>
    /\ graph = <<>>
    /\ ready = <<>>
    /\ plan = <<>>
    /\ outcome = NoOutcome
    /\ history = {}
    /\ call = NoCall
    /\ ret = "None"
    /\ notes = <<>>
    /\ emitter = "none"
    /\ inflight = NoCall
    /\ lock = "table"

NextGate ==
    \E id \in IdSet(tasks) \cup {GhostId} :
        \/ dependencies_complete_call(id)
        \/ start_if_ready(id)
        \/ complete_if_ready(id)
        \/ mark_in_progress_if_ready(id)
        \/ complete_task(id)
        \/ \E new \in StatusArgs : update_status(id, new)
        \/ \E new \in StatusArgs : update_task(id, new)

SpecGate == InitGate /\ [][NextGate]_vars

----------------------------------------------------------------------------
(* start_if_ready step by step, with a second caller on the same table.     *)
(* The gate holds no lock (dependency_resolution.py 27-34: can_start reads, *)
(* update_status writes); `lock` says how the callers themselves serialise *)
(* their calls.                                                            *)

\* lines 32-33: `if not self.can_start(task_id): return False`; a call that
\* passes the check stands before line 34
StartCheck(id) ==
    /\ inflight = NoCall
    /\ IF ~can_start(tasks, id)
       THEN /\ Called("start_if_ready", id)
            /\ Refused
            /\ UNCHANGED inflight
       ELSE /\ inflight' = [op |-> "start_if_ready", id |-> id]
            /\ UNCHANGED <<tasks, call, ret, notes, emitter>>
    /\ UNCHANGED <<policy, planVars, lock>>

\* line 34: `return self.status_mgr.update_status(task_id, TaskStatus.IN_PROGRESS)`
StartWrite ==
    /\ inflight # NoCall
    /\ Called("start_if_ready", inflight.id)
    /\ \E delivered \in BOOLEAN : UpdateStatus(inflight.id, "in_progress", delivered)
    /\ inflight' = NoCall
    /\ UNCHANGED <<policy, planVars, lock>>

\* update_status of the second caller; callers that serialise all calls do not
\* run it while a start_if_ready is under way, callers that serialise the calls
\* per task id do not run it on the task the start_if_ready is about
OtherUpdateStatus(id, new) ==
    /\ lock = "table" => inflight = NoCall
    /\ lock = "task" => inflight.id # id
    /\ CalledWith("update_status", id, new)
    /\ \E delivered \in BOOLEAN : UpdateStatus(id, new, delivered)
    /\ UNCHANGED <<policy, planVars, inflight, lock>>

\* the table of InitGate, with callers of each discipline
InitRace ==
    /\ TaskListGiven(StoreIds, {"unit"}, MaxStoreEdges)
    /\ \A i \in 1..Len(tasks) :
          Range(tasks[i].dependencies) \subseteq Range(StoreIds) \cup {GhostId}
    /\ policy = NotLoaded
    /\ pc = "idle"
    /\ indegree = <<>>
    /\ graph = <<>>
    /\ ready = <<>>
    /\ plan = <<>>
    /\ outcome = NoOutcome
    /\ history = {}
    /\ call = NoCall
    /\ ret = "None"
    /\ notes = <<>>
    /\ emitter = "none"
    /\ inflight = NoCall
    /\ lock \in {"none", "task", "table"}

NextRace ==
    \/ \E id \in IdSet(tasks) \cup {GhostId} : StartCheck(id)
    \/ StartWrite
    \/ \E id \in IdSet(tasks) \cup {GhostId} : \E new \in TaskStatus : OtherUpdateStatus(id, new)

SpecRace == InitRace /\ [][NextRace]_vars

----------------------------------------------------------------------------
(* One gate or status call on a table whose rows carry any status and any   *)
(* coverage status (update_task sets both columns)                          *)

\* coverage statuses the rows draw from
CoverageChoices == {MISSING, COMPLETE}

\* a table of at most two rows, each with a status and a coverage status
InitOrthogonal ==
    /\ \E n \in 0..Len(StoreIds) :
          \E deps \in [1..n -> DepLists] :
              /\ SumLen(deps, 1) <= MaxStoreEdges
              /\ \A i \in 1..n : Range(deps[i]) \subseteq Range(StoreIds) \cup {GhostId}
              /\ \E st \in [1..n -> TaskStatus] :
                    \E cov \in [1..n -> CoverageChoices] :
                        tasks = [i \in 1..n |->
                                    [NewTasks([j \in 1..n |-> "unit"], deps)[i]
                                        EXCEPT !.status = st[i],
                                               !.coverage_status = cov[i]]]
    /\ policy = NotLoaded
    /\ pc = "idle"
    /\ indegree = <<>>
    /\ graph = <<>>
    /\ ready = <<>>
    /\ plan = <<>>
    /\ outcome = NoOutcome
    /\ history = {}
    /\ call = NoCall
    /\ ret = "None"
    /\ notes = <<>>
    /\ emitter = "none"
    /\ inflight = NoCall
    /\ lock = "table"

\* the first call on the table
NextOrthogonal ==
    /\ call = NoCall
    /\ \E id \in IdSet(tasks) \cup {GhostId} :
          \/ dependencies_complete_call(id)
          \/ start_if_ready(id)
          \/ complete_if_ready(id)
          \/ \E new \in StatusArgs : update_status(id, new)

SpecOrthogonal == InitOrthogonal /\ [][NextOrthogonal]_vars

----------------------------------------------------------------------------
(* CoverageAnalyzer: src/planner-main/coverage/coverage_analyzer.py.        *)
(* A coverage_status is a CoverageStatus member, a free-text string, or     *)
(* something else; text is kept as a sequence of characters so that         *)
(* strip / lower / replace are computed, not assumed.                       *)

\* most tasks of a list handed to the analyzer
MaxCoverageTasks == 3

\* TEST_TYPE_PRIORITY
TEST_TYPE_PRIORITY ==
    [t \in TestType |->
        CASE t = "e2e" -> 5
          [] t = "integration" -> 4
          [] t = "security" -> 4
          [] t = "performance" -> 3
          [] t = "exploratory" -> 2
          [] t = "unit" -> 1]

\* str.lower() on the letters the inputs use
LowerChar(c) ==
    CASE c = "N" -> "n" [] c = "C" -> "c" [] c = "M" -> "m" [] c = "I" -> "i"
      [] c = "S" -> "s" [] c = "G" -> "g" [] OTHER -> c

lower(text) == [k \in 1..Len(text) |-> LowerChar(text[k])]

\* str.strip(): leading and trailing blanks removed
RECURSIVE lstrip(_)
lstrip(text) == IF text # <<>> /\ Head(text) = " " THEN lstrip(Tail(text)) ELSE text

RECURSIVE rstrip(_)
rstrip(text) ==
    IF text # <<>> /\ text[Len(text)] = " "
    THEN rstrip(SubSeq(text, 1, Len(text) - 1))
    ELSE text

strip(text) == rstrip(lstrip(text))

\* str.replace(" ", "_")
replace_blank(text) == [k \in 1..Len(text) |-> IF text[k] = " " THEN "_" ELSE text[k]]

\* status.strip().lower().replace(" ", "_")
normalized(text) == replace_blank(lower(strip(text)))

\* {"missing", "not_covered", "notcovered"}
MissingWords == {<<"m", "i", "s", "s", "i", "n", "g">>, <<"n", "o", "t", "_", "c", "o", "v", "e", "r", "e", "d">>, <<"n", "o", "t", "c", "o", "v", "e", "r", "e", "d">>}

\* only the enum member accepted
is_missing_member_only(cs) == cs.kind = "CoverageStatus" /\ cs = MISSING

\* CoverageAnalyzer._is_missing
is_missing(cs) ==
    IF cs.kind = "CoverageStatus" THEN cs = MISSING
    ELSE IF cs.kind = "str" THEN normalized(cs.text) \in MissingWords
    ELSE FALSE

\* CoverageAnalyzer.find_missing_coverage, as the ids of the tasks kept
find_missing_coverage(ts) ==
    SelectSeq(Keys(ts), LAMBDA id : is_missing(TaskOf(ts, id).coverage_status))

\* CoverageAnalyzer.prioritize_tests, as the ids of the tasks returned
prioritize_tests(ts) ==
    SortedDesc(find_missing_coverage(ts),
               [id \in IdSet(ts) |-> TEST_TYPE_PRIORITY[TaskOf(ts, id).test_type]],
               <<>>)

\* the call, from a caller that holds a task list
PrioritizeCall ==
    /\ pc = "idle"
    /\ outcome' = Returned("prioritize_tests", prioritize_tests(tasks))
    /\ pc' = "done"
    /\ UNCHANGED <<tasks, policy, indegree, graph, ready, plan, history, gateVars>>

\* coverage statuses the task lists draw from: two members, three strings
\* ("Not Covered", "Missing " and "mis sing") and a value that is no status
CoverageInputs ==
    {MISSING, COMPLETE, FreeText(<<"N", "o", "t", " ", "C", "o", "v", "e", "r", "e", "d">>), FreeText(<<"M", "i", "s", "s", "i", "n", "g", " ">>),
     FreeText(<<"m", "i", "s", " ", "s", "i", "n", "g">>), NotAStatus}

\* test types the task lists draw from (integration and security tie)
CoverageTypes == {"unit", "integration", "security"}

\* a list of at most MaxCoverageTasks tasks with unique ids and no dependencies
InitCoverage ==
    /\ \E n \in 0..MaxCoverageTasks :
          \E types \in [1..n -> CoverageTypes] :
              \E cov \in [1..n -> CoverageInputs] :
                  tasks = [i \in 1..n |-> [id |-> CoverageIds[i],
                                           test_type |-> types[i],
                                           dependencies |-> <<>>,
                                           status |-> "pending",
                                           owner |-> NoOwner,
                                           coverage_status |-> cov[i]]]
    /\ policy = NotLoaded
    /\ pc = "idle"
    /\ indegree = <<>>
    /\ graph = <<>>
    /\ ready = <<>>
    /\ plan = <<>>
    /\ outcome = NoOutcome
    /\ history = {}
    /\ call = NoCall
    /\ ret = "None"
    /\ notes = <<>>
    /\ emitter = "none"
    /\ inflight = NoCall
    /\ lock = "table"

NextCoverage == PrioritizeCall

SpecCoverage == InitCoverage /\ [][NextCoverage]_vars

----------------------------------------------------------------------------
(* CoverageAnalyzer.find_missing_test_types *)

\* expected_types: None, or a list of test types (it may repeat a type)
NoneGiven == [given |-> FALSE, types |-> <<>>]
ListGiven(types) == [given |-> TRUE, types |-> types]

\* line 76: present_types = {task.test_type for task in tasks}
present_types(ts) == {ts[i].test_type : i \in 1..Len(ts)}

\* lines 79-83: set(expected_types), or set(TestType)
expected_set(expected) == IF expected.given THEN Range(expected.types) ELSE TestType

\* the difference left out
missing_types_of_expected(ts, expected) == expected_set(expected)

\* line 86: missing_types = expected_set - present_types
missing_types(ts, expected) == expected_set(expected) \ present_types(ts)

\* the orders in which iterating a set may give its members: TestType members
\* hash as their str values, so the order changes from one process to the next
RECURSIVE Orders(_)
Orders(S) ==
    IF S = {} THEN {<<>>}
    ELSE UNION {{<<x>> \o p : p \in Orders(S \ {x})} : x \in S}

\* line 88: sorted(missing_types, key=TEST_TYPE_PRIORITY.get(t, 0), reverse=True),
\* `iteration` being the order in which the set gives its members
find_missing_test_types(iteration) == SortedDesc(iteration, TEST_TYPE_PRIORITY, <<>>)

\* what callers pass as expected_types: nothing, an empty list, the two types
\* of equal priority, a list that names a type twice, a list of four types
ExpectedInputs ==
    {NoneGiven, ListGiven(<<>>), ListGiven(<<"integration", "security">>),
     ListGiven(<<"unit", "e2e", "unit">>),
     ListGiven(<<"security", "performance", "integration", "unit">>)}

\* the call, from a caller that holds a task list
FindMissingTypesCall ==
    /\ pc = "idle"
    /\ \E expected \in ExpectedInputs :
          /\ call' = [op |-> "find_missing_test_types", id |-> "none",
                      expected_types |-> expected]
          /\ \E iteration \in Orders(missing_types(tasks, expected)) :
                outcome' = Returned("find_missing_test_types",
                                    find_missing_test_types(iteration))
    /\ pc' = "done"
    /\ UNCHANGED <<tasks, policy, indegree, graph, ready, plan, history,
                   ret, notes, emitter, inflight, lock>>

\* a list of at most MaxCoverageTasks tasks with unique ids, of any test types
InitTypes ==
    /\ \E n \in 0..MaxCoverageTasks :
          \E types \in [1..n -> TestType] :
              tasks = [i \in 1..n |-> [id |-> CoverageIds[i],
                                       test_type |-> types[i],
                                       dependencies |-> <<>>,
                                       status |-> "pending",
                                       owner |-> NoOwner,
                                       coverage_status |-> MISSING]]
    /\ policy = NotLoaded
    /\ pc = "idle"
    /\ indegree = <<>>
    /\ graph = <<>>
    /\ ready = <<>>
    /\ plan = <<>>
    /\ outcome = NoOutcome
    /\ history = {}
    /\ call = NoCall
    /\ ret = "None"
    /\ notes = <<>>
    /\ emitter = "none"
    /\ inflight = NoCall
    /\ lock = "table"

NextTypes == FindMissingTypesCall

SpecTypes == InitTypes /\ [][NextTypes]_vars

----------------------------------------------------------------------------
(* The dependency relation of a task list, stated without the planners *)

\* the dependency ids of a task that are ids of tasks of the list
InSetDeps(ts, id) == Range(TaskOf(ts, id).dependencies) \cap IdSet(ts)

\* <<t, d>>: t lists d
DepRel(ts) == {<<t, d>> \in IdSet(ts) \X IdSet(ts) : d \in InSetDeps(ts, t)}

RECURSIVE Grow(_, _, _)
Grow(ts, S, k) ==
    IF k = 0 THEN S
    ELSE Grow(ts, S \cup UNION {InSetDeps(ts, x) : x \in S}, k - 1)

\* the tasks t depends on, directly or transitively
DependsOn(ts, t) == Grow(ts, InSetDeps(ts, t), Len(ts))

OnCycle(ts) == {t \in IdSet(ts) : t \in DependsOn(ts, t)}

HasCycle(ts) == OnCycle(ts) # {}

\* the tasks on a cycle and the tasks that depend on one
Stuck(ts) == LET cyc == OnCycle(ts)
             IN  cyc \cup {t \in IdSet(ts) : DependsOn(ts, t) \cap cyc # {}}

\* position of an id in a list of ids (0 when it is not there)
PosIn(p, id) == IF \E k \in 1..Len(p) : p[k] = id
                THEN CHOOSE k \in 1..Len(p) : p[k] = id
                ELSE 0

Occurrences(p, id) == Cardinality({k \in 1..Len(p) : p[k] = id})

\* the tasks that are ready once the first k tasks of p are emitted
ReadyAfter(ts, p, k) ==
    LET done == {p[j] : j \in 1..k}
    IN  {id \in IdSet(ts) \ done : InSetDeps(ts, id) \subseteq done}

\* the emission that made a task ready (0: ready from the start)
ReadySince(ts, p, id) ==
    LET at == {PosIn(p, d) : d \in InSetDeps(ts, id)}
    IN  IF at = {} THEN 0 ELSE CHOOSE m \in at : \A x \in at : x <= m

Finished == pc = "done"

\* generate_plan is running or has just finished
Generating == pc = "generate" \/ (pc = "done" /\ outcome.algo = "generate")

----------------------------------------------------------------------------
(* A plan made from the task table and then run through the gate:           *)
(* TestPlanGenerator.generate_plan_from_db, then for each task of the plan, *)
(* in plan order, DependencyResolver.start_if_ready and complete_if_ready   *)

\* lines 90-95: tasks = dal.list_tasks(); return self.generate_plan(tasks)
generate_plan_from_db ==
    /\ pc = "idle"
    /\ \E loaded \in Policies :
          /\ policy' = get_config(policy, ZeroIndegree(tasks, BuildIndegree(tasks)), loaded)
          /\ outcome' = generate_plan(tasks, policy')
    /\ plan' = outcome'.returned
    /\ pc' = "done"
    /\ UNCHANGED <<tasks, indegree, graph, ready, history, gateVars>>

\* the caller holds a plan
HoldsPlan == pc = "done" /\ outcome.kind = "ok"

\* the caller starts the first task of the plan
VisitFirst ==
    /\ HoldsPlan
    /\ call = NoCall
    /\ plan # <<>>
    /\ start_if_ready(plan[1])

\* the caller completes the task it has just tried to start
VisitComplete ==
    /\ HoldsPlan
    /\ call.op = "start_if_ready"
    /\ complete_if_ready(call.id)

\* the caller goes on to the next task of the plan
VisitNext ==
    /\ HoldsPlan
    /\ call.op = "complete_if_ready"
    /\ PosIn(plan, call.id) < Len(plan)
    /\ start_if_ready(plan[PosIn(plan, call.id) + 1])

\* a task table of up to three rows as create_task leaves them: every row pending
InitExecute ==
    /\ TaskListGiven(AllIds, InputTypes, MaxStoreEdges)
    /\ policy = NotLoaded
    /\ pc = "idle"
    /\ indegree = <<>>
    /\ graph = <<>>
    /\ ready = <<>>
    /\ plan = <<>>
    /\ outcome = NoOutcome
    /\ history = {}
    /\ call = NoCall
    /\ ret = "None"
    /\ notes = <<>>
    /\ emitter = "none"
    /\ inflight = NoCall
    /\ lock = "table"

NextExecute ==
    \/ generate_plan_from_db
    \/ VisitFirst
    \/ VisitComplete
    \/ VisitNext

SpecExecute == InitExecute /\ [][NextExecute]_vars

----------------------------------------------------------------------------
(* Editing a plan: src/templates/test_plan_templates.py. A plan is a list   *)
(* of TestTask objects; here the rows also carry their description.         *)

\* a task object with its description
WithDescription(t, text) ==
    [f \in DOMAIN t \cup {"description"} |-> IF f = "description" THEN text ELSE t[f]]

\* list.remove(x): the first occurrence goes, the others stay
RemoveFirst(seq, x) ==
    IF \E k \in 1..Len(seq) : seq[k] = x
    THEN LET k == CHOOSE j \in 1..Len(seq) :
                      seq[j] = x /\ \A h \in 1..(j - 1) : seq[h] # x
         IN  SubSeq(seq, 1, k - 1) \o SubSeq(seq, k + 1, Len(seq))
    ELSE seq

\* remove_task_from_plan(plan, task_id): what it returns and the list it leaves
remove_task_from_plan(ts, id) ==
    IF ~ \E i \in 1..Len(ts) : ts[i].id = id
    THEN [ret |-> "False", plan |-> ts]
    ELSE LET task_index == CHOOSE i \in 1..Len(ts) :
                               ts[i].id = id /\ \A h \in 1..(i - 1) : ts[h].id # id
             popped == SubSeq(ts, 1, task_index - 1) \o SubSeq(ts, task_index + 1, Len(ts))
         IN  [ret |-> "True",
              plan |-> [i \in 1..Len(popped) |->
                          [popped[i] EXCEPT !.dependencies =
                              IF id \in Range(@) THEN RemoveFirst(@, id) ELSE @]]]

\* remove_task_from_plan called on the caller's plan
RemoveTaskCall(id) ==
    /\ pc = "idle"
    /\ Called("remove_task_from_plan", id)
    /\ ret' = remove_task_from_plan(tasks, id).ret
    /\ tasks' = remove_task_from_plan(tasks, id).plan
    /\ UNCHANGED <<policy, planVars, notes, emitter, inflight, lock>>

\* CoverageStatus(value): the values of the four members
CoverageStatusValues ==
    {NOT_STARTED.text, <<"i", "n", "_", "p", "r", "o", "g", "r", "e", "s", "s">>,
     COMPLETE.text, MISSING.text}

\* the keys of an update dict that customize_plan looks at
UpdatableFields ==
    {"description", "test_type", "owner", "status", "coverage_status", "dependencies"}

\* lines 496-507 on one task: TestType(...), TaskStatus(...) and
\* CoverageStatus(...) raise ValueError on a str that is no member's value
ApplyUpdates(task, updates) ==
    LET raises ==
            \/ "test_type" \in DOMAIN updates /\ updates.test_type \notin TestType
            \/ "status" \in DOMAIN updates /\ updates.status \notin TaskStatus
            \/ /\ "coverage_status" \in DOMAIN updates
               /\ updates.coverage_status.kind = "str"
               /\ updates.coverage_status.text \notin CoverageStatusValues
    IN  IF raises THEN [ok |-> FALSE, task |-> task]
        ELSE [ok |-> TRUE,
              task |-> [f \in DOMAIN task |->
                          IF f \in DOMAIN updates \cap UpdatableFields
                          THEN IF f = "coverage_status" /\ updates[f].kind = "str"
                               THEN CoverageMember(updates[f].text)
                               ELSE updates[f]
                          ELSE task[f]]]

\* lines 492-507: for task_id, updates in update_tasks.items()
RECURSIVE ApplyAllUpdates(_, _)
ApplyAllUpdates(ts, update_tasks) ==
    IF update_tasks = <<>> THEN [ok |-> TRUE, plan |-> ts]
    ELSE LET id == update_tasks[1][1]
             updates == update_tasks[1][2]
         IN  IF ~ \E i \in 1..Len(ts) : ts[i].id = id
             THEN ApplyAllUpdates(ts, Tail(update_tasks))
             ELSE LET i == CHOOSE j \in 1..Len(ts) :
                               ts[j].id = id /\ \A h \in 1..(j - 1) : ts[h].id # id
                      r == ApplyUpdates(ts[i], updates)
                  IN  IF ~r.ok THEN [ok |-> FALSE, plan |-> ts]
                      ELSE ApplyAllUpdates([ts EXCEPT ![i] = r.task], Tail(update_tasks))

\* lines 486-489: for task_id in remove_task_ids
RECURSIVE RemoveAll(_, _)
RemoveAll(ts, remove_task_ids) ==
    IF remove_task_ids = <<>> THEN ts
    ELSE RemoveAll(remove_task_from_plan(ts, Head(remove_task_ids)).plan,
                   Tail(remove_task_ids))

\* f"task-{counter}"
TaskName(counter) ==
    <<"task-1", "task-2", "task-3", "task-4", "task-5", "task-6", "task-7", "task-8">>[counter]

\* lines 383-387: the first free name from len(plan) + 1 on
RECURSIVE FreeName(_, _)
FreeName(existing_ids, counter) ==
    IF TaskName(counter) \in existing_ids
    THEN FreeName(existing_ids, counter + 1)
    ELSE TaskName(counter)

\* dict.get(key, default)
Get(dict, key, default) == IF key \in DOMAIN dict THEN dict[key] ELSE default

\* add_task_to_plan as customize_plan calls it with one task_data dict; an id
\* of "" stands for no id given
add_task_to_plan(ts, task_data) ==
    IF "test_type" \in DOMAIN task_data /\ task_data.test_type \notin TestType
    THEN [ok |-> FALSE, plan |-> ts]
    ELSE [ok |-> TRUE,
          plan |-> Append(ts,
              [id |-> IF Get(task_data, "id", "") = ""
                      THEN FreeName(IdSet(ts), Len(ts) + 1)
                      ELSE task_data.id,
               description |-> Get(task_data, "description", ""),
               test_type |-> Get(task_data, "test_type", "unit"),
               dependencies |-> Get(task_data, "dependencies", <<>>),
               status |-> "pending",
               owner |-> Get(task_data, "owner", NoOwner),
               coverage_status |-> NOT_STARTED])]

\* lines 509-519: for task_data in add_tasks
RECURSIVE AddAll(_, _)
AddAll(ts, add_tasks) ==
    IF add_tasks = <<>> THEN [ok |-> TRUE, plan |-> ts]
    ELSE LET r == add_task_to_plan(ts, Head(add_tasks))
         IN  IF ~r.ok THEN r ELSE AddAll(r.plan, Tail(add_tasks))

\* the list handed in edited itself, no copy made
customize_plan_in_place(ts, remove_task_ids, update_tasks, add_tasks) ==
    LET updated == ApplyAllUpdates(RemoveAll(ts, remove_task_ids), update_tasks)
        added == IF updated.ok THEN AddAll(updated.plan, add_tasks) ELSE updated
    IN  [kind |-> IF added.ok THEN "ok" ELSE "error",
         returned |-> IF added.ok THEN added.plan ELSE <<>>,
         plan |-> added.plan]

\* customize_plan: `returned` is the list it returns, `plan` the caller's list
\* after the call. Lines 476-484 build new TestTask objects with new dependency
\* lists; every later statement works on those
customize_plan(ts, remove_task_ids, update_tasks, add_tasks) ==
    LET customized_plan == [i \in 1..Len(ts) |->
                               [ts[i] EXCEPT !.dependencies = [k \in 1..Len(@) |-> @[k]]]]
        updated == ApplyAllUpdates(RemoveAll(customized_plan, remove_task_ids), update_tasks)
        added == IF updated.ok THEN AddAll(updated.plan, add_tasks) ELSE updated
    IN  [kind |-> IF added.ok THEN "ok" ELSE "error",
         returned |-> IF added.ok THEN added.plan ELSE <<>>,
         plan |-> ts]

\* what callers pass as remove_task_ids (None and [] are the same to the code)
RemoveInputs == {<<>>, <<"A">>, <<"B", GhostId>>, <<"C", "A">>}

\* what callers pass as update_tasks, as the (task_id, updates) items of the dict
UpdateInputs ==
    {<<>>,
     << <<"A", [owner |-> "john.doe"]>> >>,
     << <<"B", [status |-> "done", dependencies |-> <<>>]>>, <<GhostId, [owner |-> "x"]>> >>,
     << <<"A", [test_type |-> "e2e", coverage_status |-> FreeText(MISSING.text),
                description |-> "Updated"]>> >>,
     << <<"A", [status |-> InvalidStatus]>> >>}

\* what callers pass as add_tasks
AddInputs ==
    {<<>>,
     <<[description |-> "New task", test_type |-> "unit"]>>,
     <<[id |-> "task-3", test_type |-> "security", dependencies |-> <<"A">>],
       [description |-> "Performance tests"]>>}

\* customize_plan called on the caller's plan
CustomizeCall ==
    /\ pc = "idle"
    /\ call = NoCall
    /\ \E remove_task_ids \in RemoveInputs :
          \E update_tasks \in UpdateInputs :
              \E add_tasks \in AddInputs :
                  LET r == customize_plan(tasks, remove_task_ids, update_tasks, add_tasks)
                  IN  /\ call' = [op |-> "customize_plan", id |-> "none",
                                  remove_task_ids |-> remove_task_ids,
                                  update_tasks |-> update_tasks,
                                  add_tasks |-> add_tasks]
                      /\ outcome' = [algo |-> "customize_plan", kind |-> r.kind,
                                     returned |-> r.returned, missing |-> {}]
                      /\ ret' = IF r.kind = "ok" THEN "list" ELSE "ValueError"
                      /\ tasks' = r.plan
    /\ pc' = "done"
    /\ UNCHANGED <<policy, indegree, graph, ready, plan, history,
                   notes, emitter, inflight, lock>>

\* a plan of at most three tasks; a dependency list may name an id twice, and
\* an id that is no task of the plan
InitTemplates ==
    /\ \E n \in 0..Len(AllIds) :
          \E deps \in [1..n -> DepLists] :
              /\ SumLen(deps, 1) <= MaxEdges
              /\ tasks = [i \in 1..n |->
                            WithDescription(NewTasks([j \in 1..n |-> "unit"], deps)[i],
                                            "Test")]
    /\ policy = NotLoaded
    /\ pc = "idle"
    /\ indegree = <<>>
    /\ graph = <<>>
    /\ ready = <<>>
    /\ plan = <<>>
    /\ outcome = NoOutcome
    /\ history = {}
    /\ call = NoCall
    /\ ret = "None"
    /\ notes = <<>>
    /\ emitter = "none"
    /\ inflight = NoCall
    /\ lock = "table"

NextTemplates ==
    \/ \E id \in IdSet(tasks) \cup {GhostId} : RemoveTaskCall(id)
    \/ CustomizeCall

SpecTemplates == InitTemplates /\ [][NextTemplates]_vars

----------------------------------------------------------------------------
(* Claims about the planners, checked under SpecPlan *)

\* C1 Topological validity: in a list returned by sort or generate_plan every
\* in-set dependency of a task stands at a strictly smaller index than the task.
C1_TopologicalValidity ==
    outcome.kind = "ok" =>
        \A t \in IdSet(tasks) : \A d \in InSetDeps(tasks, t) :
            /\ PosIn(outcome.returned, d) >= 1
            /\ PosIn(outcome.returned, d) < PosIn(outcome.returned, t)

\* a returned plan in which a task of higher priority that comes first in the
\* input waits for its dependency
C1_Witness ==
    /\ outcome.kind = "ok"
    /\ outcome.algo = "generate"
    /\ \E i, j \in 1..Len(tasks) :
          /\ i < j
          /\ tasks[j].id \in InSetDeps(tasks, tasks[i].id)
          /\ Priority(tasks, policy, tasks[i].id) > Priority(tasks, policy, tasks[j].id)

\* C2 Cycle rejection: on an input whose in-set dependency relation has a cycle
\* the call ends with the error, returns no list, and the error names exactly
\* the tasks on a cycle and the tasks depending on one.
C2_CycleRejection ==
    (Finished /\ HasCycle(tasks)) =>
        /\ outcome.kind = "error"
        /\ outcome.returned = <<>>
        /\ outcome.missing = Stuck(tasks)
        /\ outcome.missing = IdSet(tasks) \ Range(plan)

\* an error after a partial order was built, naming a task that is on no cycle
C2_Witness ==
    /\ Finished
    /\ outcome.kind = "error"
    /\ plan # <<>>
    /\ outcome.missing # OnCycle(tasks)
    /\ OnCycle(tasks) # {}

\* C3 Completeness: on an input whose in-set dependency relation is acyclic the
\* call ends (after at most one emission per task) without error and the
\* returned list holds every input task exactly once.
C3_Completeness ==
    /\ Len(plan) <= Len(tasks)
    /\ (Finished /\ ~HasCycle(tasks)) =>
          /\ outcome.kind = "ok"
          /\ Len(outcome.returned) = Len(tasks)
          /\ \A id \in IdSet(tasks) : Occurrences(outcome.returned, id) = 1

\* a full plan of three tasks with in-set dependencies and a dependency on an
\* id outside the list
C3_Witness ==
    /\ Finished
    /\ outcome.kind = "ok"
    /\ Len(tasks) = 3
    /\ DepRel(tasks) # {}
    /\ \E i \in 1..Len(tasks) : GhostId \in Range(tasks[i].dependencies)

\* the emission generate_plan made last (every emission is the last one in the
\* state that follows it)
Emitted == Generating /\ plan # <<>>

Last == Len(plan)

\* C7 Global priority selection: every task generate_plan emits has the maximum
\* priority among all tasks ready at that moment.
C7_GlobalPriority ==
    Emitted =>
        \A u \in ReadyAfter(tasks, plan, Last - 1) :
            Priority(tasks, policy, plan[Last]) >= Priority(tasks, policy, u)

\* an emission chosen among a task ready from the start and a task released
\* later, of different priorities
C7_Witness ==
    /\ Generating
    /\ \E k \in 2..Len(plan) : \E u, v \in ReadyAfter(tasks, plan, k - 1) :
          /\ u \in ReadyAfter(tasks, plan, 0)
          /\ v \notin ReadyAfter(tasks, plan, 0)
          /\ Priority(tasks, policy, u) > Priority(tasks, policy, v)
          /\ plan[k] = u

\* C8 as stated: among the ready tasks that share the highest priority the one
\* first in the input order is emitted.
C8_TieByInputOrder ==
    Emitted =>
        \A u \in ReadyAfter(tasks, plan, Last - 1) :
            Priority(tasks, policy, plan[Last]) = Priority(tasks, policy, u)
                => IndexOf(tasks, plan[Last]) <= IndexOf(tasks, u)

\* C8 amended: among the ready tasks that share the highest priority the one
\* that became ready at the earliest emission is emitted, and among those that
\* became ready at the same emission the one first in the input order.
C8_TieByQueueOrder ==
    Emitted =>
        \A u \in ReadyAfter(tasks, plan, Last - 1) :
            Priority(tasks, policy, plan[Last]) = Priority(tasks, policy, u)
                => \/ ReadySince(tasks, plan, plan[Last]) < ReadySince(tasks, plan, u)
                   \/ /\ ReadySince(tasks, plan, plan[Last]) = ReadySince(tasks, plan, u)
                      /\ IndexOf(tasks, plan[Last]) <= IndexOf(tasks, u)

\* a tie that the later task of the input wins because it was ready earlier,
\* and a tie inside one wave
C8_Witness ==
    /\ Generating
    /\ \E k \in 1..Len(plan) : \E u \in ReadyAfter(tasks, plan, k - 1) :
          /\ u # plan[k]
          /\ Priority(tasks, policy, plan[k]) = Priority(tasks, policy, u)
          /\ IndexOf(tasks, plan[k]) > IndexOf(tasks, u)
          /\ ReadySince(tasks, plan, plan[k]) < ReadySince(tasks, plan, u)

\* C9 Priority bias: two tasks without in-set dependencies come out of
\* generate_plan with the one of higher priority first, whatever the input order.
C9_PriorityBias ==
    (Generating /\ outcome.kind = "ok") =>
        \A a, b \in IdSet(tasks) :
            ( /\ InSetDeps(tasks, a) = {}
              /\ InSetDeps(tasks, b) = {}
              /\ Priority(tasks, policy, a) > Priority(tasks, policy, b) )
            => /\ PosIn(outcome.returned, a) >= 1
               /\ PosIn(outcome.returned, a) < PosIn(outcome.returned, b)

\* a returned plan in which the root of higher priority comes later in the input
C9_Witness ==
    /\ Generating
    /\ outcome.kind = "ok"
    /\ \E a, b \in IdSet(tasks) :
          /\ InSetDeps(tasks, a) = {}
          /\ InSetDeps(tasks, b) = {}
          /\ Priority(tasks, policy, a) > Priority(tasks, policy, b)
          /\ IndexOf(tasks, a) > IndexOf(tasks, b)

\* C10 Determinism: a generate_plan call ends as every earlier generate_plan
\* call on the same task list and policy ended: same order or same error.
C10_Determinism ==
    (Finished /\ outcome.algo = "generate") =>
        \A h \in history : h.algo = "generate" => h = outcome

\* a second generate_plan call that had a tie to break
C10_Witness ==
    /\ Finished
    /\ outcome.algo = "generate"
    /\ outcome.kind = "ok"
    /\ \E h \in history : h.algo = "generate"
    /\ \E k \in 1..Len(plan) : \E u \in ReadyAfter(tasks, plan, k - 1) :
          u # plan[k] /\ Priority(tasks, policy, plan[k]) = Priority(tasks, policy, u)

\* the input with every dependency id that is the id of no task removed from
\* every dependency list
StripOutOfSet(ts) ==
    [i \in 1..Len(ts) |->
        [ts[i] EXCEPT !.dependencies = SelectSeq(@, LAMBDA d : d \in IdSet(ts))]]

\* C11 Out-of-set dependencies are ignored by planning: sort and generate_plan
\* end on an input as they end on that input with every out-of-set dependency
\* id removed (same order, or same error with the same missing set), and an
\* input whose dependency ids are all out-of-set never ends in the error.
C11_OutOfSetIgnored ==
    Finished =>
        /\ outcome = IF outcome.algo = "sort"
                     THEN sort(StripOutOfSet(tasks))
                     ELSE generate_plan(StripOutOfSet(tasks), policy)
        /\ (\A id \in IdSet(tasks) : InSetDeps(tasks, id) = {}) => outcome.kind = "ok"

\* a finished call on a list in which every task names an id outside the list
\* and one task also waits for a task of the list
C11_Witness ==
    /\ Finished
    /\ Len(tasks) >= 2
    /\ \A i \in 1..Len(tasks) : GhostId \in Range(tasks[i].dependencies)
    /\ \E id \in IdSet(tasks) : InSetDeps(tasks, id) # {}
    /\ StripOutOfSet(tasks) # tasks
    /\ outcome.kind = "ok"

----------------------------------------------------------------------------
(* Claims about the dependency gate, checked under SpecGate *)

\* the dependency ids of a stored task
DepsOf(ts, id) == Range(TaskOf(ts, id).dependencies)

\* some dependency of the task is stored with a status other than done
SomeStoredDepNotDone(ts, id) ==
    \E d \in DepsOf(ts, id) : Found(ts, d) /\ StatusOf(ts, d) # "done"

\* some dependency of the task resolves to no stored task
SomeDepAbsent(ts, id) == \E d \in DepsOf(ts, id) : ~Found(ts, d)

\* the gate call that made this step, and its target state
IsGateCall(c) == c.op \in {"start_if_ready", "complete_if_ready"}

GateTarget(c) == IF c.op = "start_if_ready" THEN "in_progress" ELSE "done"

Advanced(id) ==
    /\ StatusOf(tasks', id) # StatusOf(tasks, id)
    /\ StatusOf(tasks', id) \in {"in_progress", "done"}

\* C6 as stated: whichever call makes it, a step that changes a status to
\* in_progress or done starts where every stored dependency of the task is done.
C6_StatusInvariantAllCalls ==
    [][ \A id \in IdSet(tasks) :
            Advanced(id) => ~SomeStoredDepNotDone(tasks, id) ]_vars

\* C6 amended: a step of start_if_ready or complete_if_ready (or of
\* mark_in_progress_if_ready / complete_task) that changes a status to
\* in_progress or done starts where every stored dependency of the task is
\* done; update_status (and the table's own update_task) is not bound by it.
C6_StatusInvariantGate ==
    [][ \A id \in IdSet(tasks) :
            (Advanced(id) /\ call'.op \notin {"update_status", "update_task"})
                => ~SomeStoredDepNotDone(tasks, id) ]_vars

\* start_if_ready moved a task with a stored dependency to in_progress
C6_Witness ==
    /\ call.op = "start_if_ready"
    /\ ret = "True"
    /\ Found(tasks, call.id)
    /\ StatusOf(tasks, call.id) = "in_progress"
    /\ notes # <<>>
    /\ \E d \in DepsOf(tasks, call.id) : d # call.id /\ Found(tasks, d)

----------------------------------------------------------------------------
(* Claims about the status writes, checked under SpecGate *)

\* the task is unready: it is not stored, or a dependency of it is not stored,
\* or a dependency of it is stored with a status other than done
Unready(ts, id) ==
    \/ ~Found(ts, id)
    \/ SomeStoredDepNotDone(ts, id)
    \/ SomeDepAbsent(ts, id)

\* C12 No-op gate calls are idempotent: a start_if_ready call on an unready task
\* returns false, leaves every field of every row as it was and hands no
\* notification to the emitter; the task is then as unready as before, so the
\* same holds for every call that follows it.
C12_NoOpGateCalls ==
    [][ (call'.op = "start_if_ready" /\ Unready(tasks, call'.id)) =>
            /\ ret' = "False"
            /\ tasks' = tasks
            /\ notes' = <<>>
            /\ emitter' = "none"
            /\ Unready(tasks', call'.id) ]_vars

\* a refused start of a stored task that waits for a stored task, in a table
\* some row of which has left pending
C12_Witness ==
    /\ call.op = "start_if_ready"
    /\ ret = "False"
    /\ Found(tasks, call.id)
    /\ \E d \in DepsOf(tasks, call.id) : d # call.id /\ Found(tasks, d) /\ StatusOf(tasks, d) = "in_progress"
    /\ notes = <<>>

\* C13 Task-not-found is a value, not a failure: for an id that is the id of no
\* row, start_if_ready, complete_if_ready and update_status (whatever status it is
\* given) return false and dependencies_complete returns None, an answer that is
\* neither true nor false; none of the calls raises, changes a row or hands a
\* notification to the emitter.
C13_NotFoundIsAValue ==
    [][ ~Found(tasks, call'.id) =>
            /\ call'.op \in {"start_if_ready", "complete_if_ready", "update_status"}
                  => ret' = "False"
            /\ call'.op = "dependencies_complete"
                  => (ret' = "None" /\ ret' \notin {"True", "False"})
            /\ ret' # "ValueError"
            /\ tasks' = tasks
            /\ notes' = <<>>
            /\ emitter' = "none" ]_vars

\* dependencies_complete asked about an id that is the id of no row, in a table
\* with a row that is done
C13_Witness ==
    /\ call.op = "dependencies_complete"
    /\ ~Found(tasks, call.id)
    /\ ret = "None"
    /\ \E id \in IdSet(tasks) : StatusOf(tasks, id) = "done"

\* C14 update_status is an unconditional write: given one of the four statuses
\* it sets the status of a stored task to it and returns true, whatever the
\* status was and whatever the statuses of the dependencies are, and touches no
\* other row; it returns false exactly when the task is not stored.
C14_UnconditionalWrite ==
    [][ (call'.op = "update_status" /\ call'.new_status \in TaskStatus) =>
            IF Found(tasks, call'.id)
            THEN /\ ret' = "True"
                 /\ tasks' = SetStatus(tasks, call'.id, call'.new_status)
            ELSE /\ ret' = "False"
                 /\ tasks' = tasks ]_vars

\* update_status made a task done while a stored dependency of it is pending
C14_Witness ==
    /\ call.op = "update_status"
    /\ call.new_status = "done"
    /\ ret = "True"
    /\ StatusOf(tasks, call.id) = "done"
    /\ \E d \in DepsOf(tasks, call.id) :
          d # call.id /\ Found(tasks, d) /\ StatusOf(tasks, d) = "pending"

\* C15 as stated: whichever operation writes, a step that changes the status
\* of a task hands the emitter a notification with the old and the new status,
\* and a step that leaves the status of a task as it was hands it none for it.
C15_NotifyOnEveryChange ==
    [][ \A id \in IdSet(tasks) :
            IF StatusOf(tasks', id) # StatusOf(tasks, id)
            THEN Notification(id, StatusOf(tasks, id), StatusOf(tasks', id)) \in Range(notes')
            ELSE \A k \in 1..Len(notes') : notes'[k].task_id # id ]_vars

\* C15 for the writers that do notify: a step of update_status, start_if_ready,
\* complete_if_ready or update_task that changes a status hands the emitter
\* exactly the notification with the old and the new status, and one that
\* changes none hands it nothing.
C15_NotifyingWriters ==
    [][ call'.op \in {"update_status", "start_if_ready", "complete_if_ready", "update_task"} =>
          /\ \A id \in IdSet(tasks) :
                StatusOf(tasks', id) # StatusOf(tasks, id) =>
                    notes' = <<Notification(id, StatusOf(tasks, id), StatusOf(tasks', id))>>
          /\ tasks' = tasks => notes' = <<>> ]_vars

\* mark_in_progress_if_ready or complete_task changed a status and nothing was
\* handed to the emitter
C15_Witness ==
    /\ call.op \in {"mark_in_progress_if_ready", "complete_task"}
    /\ ret = "True"
    /\ StatusOf(tasks, call.id) # "pending"
    /\ notes = <<>>

\* C16 Notification failure is absorbed: when the emitter has failed in an
\* update_status, start_if_ready or complete_if_ready call, the call has returned
\* true (it has not raised) and the row holds the new status of the notification
\* the emitter failed on.
C16_NotificationFailureAbsorbed ==
    (emitter = "failed" /\ call.op \in {"update_status", "start_if_ready", "complete_if_ready"}) =>
        /\ ret = "True"
        /\ Len(notes) = 1
        /\ notes[1].task_id = call.id
        /\ notes[1].old_status # notes[1].new_status
        /\ StatusOf(tasks, call.id) = notes[1].new_status

\* the emitter failed on the notification of a start_if_ready that moved a
\* task with a stored dependency to in_progress
C16_Witness ==
    /\ emitter = "failed"
    /\ call.op = "start_if_ready"
    /\ ret = "True"
    /\ StatusOf(tasks, call.id) = "in_progress"
    /\ \E d \in DepsOf(tasks, call.id) : d # call.id /\ Found(tasks, d)

\* C17 as stated: start_if_ready changes a status only from pending to
\* in_progress and complete_if_ready only from in_progress to done.
C17_ForwardOnly ==
    [][ \A id \in IdSet(tasks) :
            StatusOf(tasks', id) # StatusOf(tasks, id) =>
                /\ call'.op = "start_if_ready" =>
                      (StatusOf(tasks, id) = "pending" /\ StatusOf(tasks', id) = "in_progress")
                /\ call'.op = "complete_if_ready" =>
                      (StatusOf(tasks, id) = "in_progress" /\ StatusOf(tasks', id) = "done") ]_vars

\* start_if_ready moved a task that was done back to in_progress
C17_Witness ==
    /\ call.op = "start_if_ready"
    /\ ret = "True"
    /\ notes = <<Notification(call.id, "done", "in_progress")>>
    /\ StatusOf(tasks, call.id) = "in_progress"

\* C18 as stated: a start_if_ready or complete_if_ready call leaves every task
\* that is blocked blocked, whatever the statuses of its dependencies.
C18_BlockedPreserved ==
    [][ IsGateCall(call') =>
            \A id \in IdSet(tasks) :
                StatusOf(tasks, id) = "blocked" => StatusOf(tasks', id) = "blocked" ]_vars

\* a gate call moved a blocked task on
C18_Witness ==
    /\ IsGateCall(call)
    /\ ret = "True"
    /\ Len(notes) = 1
    /\ notes[1].old_status = "blocked"
    /\ StatusOf(tasks, call.id) # "blocked"

----------------------------------------------------------------------------
(* Claim about concurrent callers, checked under SpecRace *)

\* start_if_ready has just written in_progress and returned true although a
\* stored dependency (another task) is not done
StartedOverPendingDep ==
    /\ call.op = "start_if_ready"
    /\ ret = "True"
    /\ StatusOf(tasks, call.id) = "in_progress"
    /\ \E d \in DepsOf(tasks, call.id) :
          d # call.id /\ Found(tasks, d) /\ StatusOf(tasks, d) # "done"

\* C19 as stated: start_if_ready writes in_progress and returns true over a
\* stored dependency that is not done only when the callers take no care at
\* all; calls serialised per task exclude it.
C19_RaceOnlyUnserialised == StartedOverPendingDep => lock = "none"

\* C19 amended: with callers that do not serialise their calls, and also with
\* callers that serialise them per task id only (the update_status that takes
\* the dependency out of done is a call on another task id), start_if_ready can
\* write in_progress and return true over a stored dependency that is not done;
\* when every call on the table runs as a whole no such state is reached.
C19_RaceUnlessTableSerialised == StartedOverPendingDep => lock # "table"

\* the interleaving: the check passed, another caller's update_status took the
\* dependency out of done, and start_if_ready wrote in_progress and returned true
C19_Witness == StartedOverPendingDep /\ lock = "none" /\ inflight = NoCall

----------------------------------------------------------------------------
(* Claim about the coverage analyzer, checked under SpecCoverage *)

\* the coverage statuses that mean missing, listed one by one: the member
\* MISSING, "Not Covered" and "Missing "
MeansMissing ==
    {MISSING, FreeText(<<"N", "o", "t", " ", "C", "o", "v", "e", "r", "e", "d">>),
     FreeText(<<"M", "i", "s", "s", "i", "n", "g", " ">>)}

Ranked == pc = "done" /\ outcome.algo = "prioritize_tests"

\* C20 Coverage ranking: prioritize_tests returns exactly the input tasks whose
\* coverage status is missing, each once and no other task, in non-increasing
\* test-type priority, tasks of equal priority in their input order.
C20_CoverageRanking ==
    Ranked =>
        LET out == outcome.returned
            prio(id) == TEST_TYPE_PRIORITY[TaskOf(tasks, id).test_type]
        IN  /\ outcome.kind = "ok"
            /\ Range(out) = {id \in IdSet(tasks) : TaskOf(tasks, id).coverage_status \in MeansMissing}
            /\ \A id \in Range(out) : Occurrences(out, id) = 1
            /\ \A i, j \in 1..Len(out) :
                  i < j => /\ prio(out[i]) >= prio(out[j])
                           /\ prio(out[i]) = prio(out[j])
                                 => IndexOf(tasks, out[i]) < IndexOf(tasks, out[j])

\* a ranking that dropped a task whose free-text status does not mean missing,
\* kept a task whose free-text status does, and moved a task forward
C20_Witness ==
    /\ Ranked
    /\ Len(tasks) = 3
    /\ Len(outcome.returned) = 2
    /\ IndexOf(tasks, outcome.returned[1]) > IndexOf(tasks, outcome.returned[2])
    /\ \E id \in Range(outcome.returned) : TaskOf(tasks, id).coverage_status.kind = "str"
    /\ \E id \in IdSet(tasks) \ Range(outcome.returned) :
          TaskOf(tasks, id).coverage_status.kind = "str"

----------------------------------------------------------------------------
(* Claims that relate the coverage prioritizer to the planner *)

\* C21 One priority function for planning and coverage: once the policy is
\* loaded, the value TEST_TYPE_PRIORITY gives each test type is the value
\* generate_plan's lookup gives it, under the default policy and under an
\* override, so no two test types are ranked in opposite orders.
C21_OnePriorityFunction ==
    policy # NotLoaded =>
        /\ \A t \in TestType :
              TEST_TYPE_PRIORITY[t] = get_priority_for_test_type(policy, t)
        /\ \A t, u \in TestType :
              ~ ( /\ TEST_TYPE_PRIORITY[t] > TEST_TYPE_PRIORITY[u]
                  /\ get_priority_for_test_type(policy, t)
                        < get_priority_for_test_type(policy, u) )

\* C21, the part that holds: under the policy built when no priority_policy.yaml
\* exists the two lookups agree on every test type.
C21_DefaultPolicyAgrees ==
    policy = DefaultPriorityPolicy =>
        \A t \in TestType :
            TEST_TYPE_PRIORITY[t] = get_priority_for_test_type(policy, t)

\* a plan returned under the override policy in which a root comes before another
\* root that TEST_TYPE_PRIORITY ranks strictly higher
C21_Witness ==
    /\ Finished
    /\ outcome.algo = "generate"
    /\ outcome.kind = "ok"
    /\ policy = OverridePriorityPolicy
    /\ \E a, b \in IdSet(tasks) :
          /\ InSetDeps(tasks, a) = {}
          /\ InSetDeps(tasks, b) = {}
          /\ PosIn(outcome.returned, a) < PosIn(outcome.returned, b)
          /\ TEST_TYPE_PRIORITY[TaskOf(tasks, a).test_type]
                < TEST_TYPE_PRIORITY[TaskOf(tasks, b).test_type]

\* C22 Missing categories: find_missing_test_types returns exactly the members
\* of the expected set (all six test types when no list is given) that are the
\* test type of no input task, each once, in non-increasing priority.
C22_MissingTestTypes ==
    (pc = "done" /\ outcome.algo = "find_missing_test_types") =>
        LET expected == IF call.expected_types.given
                        THEN {call.expected_types.types[k] :
                                 k \in 1..Len(call.expected_types.types)}
                        ELSE TestType
            r == outcome.returned
        IN  /\ Range(r) = {t \in expected : \A i \in 1..Len(tasks) : tasks[i].test_type # t}
            /\ \A t \in Range(r) : Occurrences(r, t) = 1
            /\ \A i, j \in 1..Len(r) :
                  i < j => TEST_TYPE_PRIORITY[r[i]] >= TEST_TYPE_PRIORITY[r[j]]

\* a call without a list on tasks of two types: four types come back, security
\* ahead of integration, which precedes it among the members of TestType
C22_Witness ==
    /\ pc = "done"
    /\ outcome.algo = "find_missing_test_types"
    /\ ~ call.expected_types.given
    /\ Cardinality(present_types(tasks)) = 2
    /\ Len(outcome.returned) = 4
    /\ PosIn(outcome.returned, "security") >= 1
    /\ PosIn(outcome.returned, "security") < PosIn(outcome.returned, "integration")

----------------------------------------------------------------------------
(* Claims about what planning leaves alone *)

\* C23 Planning is read-only: no step of sort or generate_plan, from the call to
\* the returned plan or the raised cycle error, changes the input list or any
\* field of a task in it (id, test type, dependencies, status, owner, coverage
\* status).
C23_PlanningReadOnly ==
    [][ /\ Len(tasks') = Len(tasks)
        /\ \A i \in 1..Len(tasks) :
              /\ tasks'[i].id = tasks[i].id
              /\ tasks'[i].test_type = tasks[i].test_type
              /\ tasks'[i].dependencies = tasks[i].dependencies
              /\ tasks'[i].status = tasks[i].status
              /\ tasks'[i].owner = tasks[i].owner
              /\ tasks'[i].coverage_status = tasks[i].coverage_status ]_vars

\* both planners have run on a list with a cycle next to an orderable task: the
\* later call raised and an earlier call of the other planner is remembered
C23_Witness ==
    /\ Finished
    /\ outcome.kind = "error"
    /\ outcome.missing # IdSet(tasks)
    /\ \E h \in history : h.algo # outcome.algo /\ h.kind = "error"
    /\ \E i \in 1..Len(tasks) : Len(tasks[i].dependencies) >= 1

\* C24 Same failure conditions: a generate_plan call ends in the cycle error
\* exactly when sort does on the same list, and a sort call exactly when
\* generate_plan does under every policy; both errors name the same ids.
C24_SameFailures ==
    Finished =>
        /\ outcome.algo = "generate" =>
              /\ sort(tasks).kind = outcome.kind
              /\ sort(tasks).missing = outcome.missing
        /\ outcome.algo = "sort" =>
              \A pol \in Policies :
                  /\ generate_plan(tasks, pol).kind = outcome.kind
                  /\ generate_plan(tasks, pol).missing = outcome.missing

\* generate_plan raised after emitting a task, on a list on which sort had
\* raised before, and what it had emitted is not what sort emits first
C24_Witness ==
    /\ Finished
    /\ outcome.algo = "generate"
    /\ outcome.kind = "error"
    /\ outcome.missing # IdSet(tasks)
    /\ \E h \in history : h.algo = "sort" /\ h.kind = "error"
    /\ Len(plan) >= 1
    /\ plan[1] # Keys(tasks)[1]

----------------------------------------------------------------------------
(* Status and coverage *)

\* the tables that differ from ts in coverage_status only (ts is one of them)
Twins(ts) ==
    {[i \in 1..Len(ts) |-> [ts[i] EXCEPT !.coverage_status = cov[i]]] :
        cov \in [1..Len(ts) -> CoverageChoices]}

StatusColumn(ts) == [i \in 1..Len(ts) |-> ts[i].status]
CoverageColumn(ts) == [i \in 1..Len(ts) |-> ts[i].coverage_status]

\* C25 Status and coverage are orthogonal: a dependencies_complete,
\* start_if_ready, complete_if_ready or update_status call returns, and leaves in
\* the status column, what the same call returns and leaves on every table that
\* differs in coverage status only, and it changes no coverage status there or
\* here.
C25_CoverageOrthogonal ==
    [][ call'.op \in {"dependencies_complete", "start_if_ready",
                      "complete_if_ready", "update_status"} =>
          /\ GateOutcome(tasks, call') = [ret |-> ret', tasks |-> tasks']
          /\ CoverageColumn(tasks') = CoverageColumn(tasks)
          /\ \A twin \in Twins(tasks) :
                LET o == GateOutcome(twin, call')
                IN  /\ o.ret = ret'
                    /\ StatusColumn(o.tasks) = StatusColumn(tasks')
                    /\ CoverageColumn(o.tasks) = CoverageColumn(twin) ]_vars

\* the gate has let a task start whose dependency is done, on a table whose two
\* rows differ in coverage status
C25_Witness ==
    /\ call.op = "start_if_ready"
    /\ ret = "True"
    /\ Len(tasks) = 2
    /\ tasks[1].coverage_status = MISSING
    /\ tasks[2].coverage_status = COMPLETE
    /\ StatusOf(tasks, call.id) = "in_progress"
    /\ \E d \in Range(TaskOf(tasks, call.id).dependencies) :
          Found(tasks, d) /\ StatusOf(tasks, d) = "done"

----------------------------------------------------------------------------
(* Claims about the order TaskSorter.sort gives (TestTaskDAL.plan_tasks is  *)
(* sort on the rows list_tasks returns)                                     *)

\* the list is in a valid dependency order as it stands
InValidOrder(ts) ==
    \A i \in 1..Len(ts) : \A d \in InSetDeps(ts, ts[i].id) : IndexOf(ts, d) < i

----------------------------------------------------------------------------
(* Claim about running a plan through the gate, checked under SpecExecute *)

\* the caller has made at least one gate call on its plan
Visiting == HoldsPlan /\ call # NoCall

\* the caller has made the last call of its run
Visited == Visiting /\ call.op = "complete_if_ready" /\ call.id = plan[Len(plan)]

\* every dependency id of every row is the id of a row
DepsStored(ts) ==
    \A i \in 1..Len(ts) : Range(ts[i].dependencies) \subseteq IdSet(ts)

\* C27 A generated plan is executable through the gate: on a table of pending
\* rows for which generate_plan succeeds, start_if_ready and then
\* complete_if_ready on each task in plan order return true at every call, and
\* after the last call every task is done.
C27_PlanExecutable ==
    /\ Visiting => ret = "True"
    /\ Visited => \A i \in 1..Len(tasks) : tasks[i].status = "done"

\* C27, the part that holds: the same when every dependency id names a row.
C27_ExecutableWhenDepsStored ==
    DepsStored(tasks) =>
        /\ Visiting => ret = "True"
        /\ Visited => \A i \in 1..Len(tasks) : tasks[i].status = "done"

\* the run is over on a table of three rows, one of them waiting for a row that
\* comes later in the table
C27_Witness ==
    /\ Visited
    /\ Len(tasks) = 3
    /\ DepsStored(tasks)
    /\ \E i, j \in 1..Len(tasks) : i < j /\ tasks[j].id \in Range(tasks[i].dependencies)
    /\ \A i \in 1..Len(tasks) : tasks[i].status = "done"

----------------------------------------------------------------------------
(* Claim that relates the two planners, checked under SpecPlan *)

\* C28 Priority generator refines the sorter: under a policy that gives every
\* test type the same value, generate_plan ends on a list exactly as sort ended
\* on it: the same order, or the error with the same ids.
C28_FlatPriorityIsSort ==
    (Finished /\ outcome.algo = "sort") =>
        \A pol \in FlatPriorityPolicies :
            generate_plan(tasks, pol) = [outcome EXCEPT !.algo = "generate"]

\* sort has returned three tasks of two types in another order than the input
\* order, and under the default policy generate_plan gives yet another order
C28_Witness ==
    /\ Finished
    /\ outcome.algo = "sort"
    /\ outcome.kind = "ok"
    /\ Len(outcome.returned) = 3
    /\ outcome.returned # Keys(tasks)
    /\ generate_plan(tasks, DefaultPriorityPolicy).returned # outcome.returned

----------------------------------------------------------------------------
(* Claims about editing a plan, checked under SpecTemplates *)

\* the plan still refers to the id: a task carries it or a dependency list names it
RefersTo(ts, id) ==
    \E i \in 1..Len(ts) : ts[i].id = id \/ id \in Range(ts[i].dependencies)

\* C29 No dangling reference after removal: after remove_task_from_plan(plan, id)
\* has returned True no task of the plan carries the id and no dependency list
\* names it, however often the lists named it before; when it has returned
\* False the plan is as it was.
C29_NoDanglingReference ==
    [][ call'.op = "remove_task_from_plan" =>
          /\ ret' = "True" => ~RefersTo(tasks', call'.id)
          /\ ret' = "False" => tasks' = tasks ]_vars

\* C29, the part that holds: the same for a plan in which no dependency list
\* names the removed id more than once.
C29_SingleReferencesRemoved ==
    [][ ( /\ call'.op = "remove_task_from_plan"
          /\ \A i \in 1..Len(tasks) : Occurrences(tasks[i].dependencies, call'.id) <= 1 )
        => /\ ret' = "True" => ~RefersTo(tasks', call'.id)
           /\ ret' = "False" => tasks' = tasks ]_vars

\* the removal has returned True and a task that stays names the removed id
C29_Witness ==
    /\ call.op = "remove_task_from_plan"
    /\ ret = "True"
    /\ \A i \in 1..Len(tasks) : tasks[i].id # call.id
    /\ \E i \in 1..Len(tasks) : call.id \in Range(tasks[i].dependencies)

\* C30 customize_plan leaves its input untouched: whatever it is asked to add,
\* remove and update, and whether it returns or raises, the caller's plan
\* holds the same tasks in the same order and every task keeps every field,
\* its dependency list included; only the returned list differs.
C30_OriginalUntouched ==
    [][ call'.op = "customize_plan" =>
          /\ Len(tasks') = Len(tasks)
          /\ \A i \in 1..Len(tasks) :
                /\ DOMAIN tasks'[i] = DOMAIN tasks[i]
                /\ \A f \in DOMAIN tasks[i] : tasks'[i][f] = tasks[i][f] ]_vars

\* a call that removed a task others depended on, updated a task and added two
\* has returned a list that differs from the caller's plan
C30_Witness ==
    /\ call.op = "customize_plan"
    /\ outcome.kind = "ok"
    /\ Len(tasks) = 3
    /\ call.remove_task_ids = <<"A">>
    /\ \E i \in 1..Len(tasks) : Occurrences(tasks[i].dependencies, "A") >= 1
    /\ Len(call.update_tasks) = 2
    /\ Len(call.add_tasks) = 2
    /\ Len(outcome.returned) = 4
    /\ \A k \in 1..Len(outcome.returned) : outcome.returned[k].id # "A"
    /\ \E k \in 1..Len(outcome.returned) : outcome.returned[k].status = "done"

====
